---- MODULE Spec2Model ----
(***************************************************************************)
(* Model of sharepoint.py (the MicrosoftGraph client with its Response     *)
(* descriptor) and of the driver script Checking_list.py.                  *)
(* Strings are sequences of one-character strings, so that building a URL  *)
(* or a header is concatenation and can be compared character by           *)
(* character.                                                              *)
(***************************************************************************)
EXTENDS Integers, Sequences, FiniteSets, TLC

VARIABLES
    main,      \* the top-level program: "Checking_list", "harness" or "urls"
    dpc,       \* position of Checking_list.py: "call", "print", "done", "uncaught"
    calls,     \* number of fetch calls started so far
    cache,     \* per client: does the token cache of self.app hold an account
    value,     \* Response.value, the attribute of the descriptor object
    pc,        \* position inside the running fetch method
    self,      \* the client the running fetch method was called on
    method,    \* "items" (get_sharepoint_list_item_data) or "list" (get_sharepoint_list)
    args,      \* the arguments of the call
    url,       \* local url
    result,    \* local result of _get_token
    token,     \* what _get_token returned
    headers,   \* the Authorization header value
    request,   \* what was handed to requests.get
    resp,      \* what requests.get returned
    raised,    \* the exception in flight, or "none"
    ret,       \* what the fetch method returned
    stdout,    \* the lines printed during the current call
    trace      \* calls made to the provider and the platform during the current call

vars ==
    <<main, dpc, calls, cache, value, pc, self, method, args, url, result,
      token, headers, request, resp, raised, ret, stdout, trace>>

----------------------------------------------------------------------------
\* Bounds

\* number of fetch calls a harness process makes
MaxCalls ==
    2

\* longest column / value string tried when building URLs
MaxLen ==
    2

----------------------------------------------------------------------------
\* Literals

\* literal text of the resource URL up to the tenant name
UrlSites ==
    <<"h","t","t","p","s",":","/","/","g","r","a","p","h",".","m","i","c","r","o","s","o","f","t",".","c","o","m","/","v","1",".","0","/","s","i","t","e","s","/">>

\* literal text between tenant name and team id
UrlTeams ==
    <<".","s","h","a","r","e","p","o","i","n","t",".","c","o","m",":","/","t","e","a","m","s","/">>

\* literal text between team id and list id
UrlLists ==
    <<":","/","l","i","s","t","s","/">>

\* literal text after the list id
UrlItems ==
    <<"/","i","t","e","m","s">>

\* query text before the column name
UrlFilter ==
    <<"?","$","e","x","p","a","n","d","=","f","i","e","l","d","s","&","$","f","i","l","t","e","r","=","f","i","e","l","d","s","/">>

\* text between column and value
UrlEq ==
    <<" ","e","q"," ","'">>

\* closing quote of the filter value
UrlQuote ==
    <<"'">>

\* literal prefix of the Authorization header
Bearer ==
    <<"B","e","a","r","e","r"," ">>

\* what an f-string prints for the value None
NoneStr ==
    <<"N","o","n","e">>

\* a bearer string handed out by the identity provider
AccessToken ==
    <<"t","k">>

\* tenant_name literal of the driver script
Unisyd ==
    <<"u","n","i","s","y","d">>

\* team_id literal of the driver script
AIHub ==
    <<"A","I","H","u","b">>

\* list_id literal of the driver script
ListId ==
    <<"c","0","1","3","5","0","7","1","-","1","2","f","f","-","4","1","8","6","-","b","9","f","8","-","d","3","9","3","9","d","7","c","5","4","a","4">>

\* requests.codes.ok
Ok ==
    200

\* Response.valid_response
valid_response ==
    {Ok, 201}

\* the status codes the platform is taken to answer with
Statuses ==
    {200, 201, 400, 401, 403, 404, 429, 500}

\* two MicrosoftGraph instances of one process
Clients ==
    {"c1", "c2"}

\* the characters strings are built from; one of them is the single quote
Alphabet ==
    {"a", "'"}

\* all strings over Alphabet of length at most n
RECURSIVE Strs(_)
Strs(n) ==
    IF n = 0 THEN {<<>>}
    ELSE LET S == Strs(n - 1)
         IN  S \cup {Append(s, ch) : s \in {t \in S : Len(t) = n - 1}, ch \in Alphabet}

\* Python's None, and the two other non-response values of the model
None ==
    [kind |-> "None"]

Pending ==
    [kind |-> "pending"]

Unset ==
    [kind |-> "unset"]

\* the classes of the exceptions in flight, and which of them derive from Exception
ExceptionSubclasses ==
    {"MsalError", "RequestException", "InvalidResponseCodeError"}

----------------------------------------------------------------------------
\* Pure parts of the code

\* a value with every single quote doubled, as an OData escape would
RECURSIVE EscapeQuotes(_)
EscapeQuotes(v) ==
    IF v = <<>> THEN <<>>
    ELSE (IF Head(v) = "'" THEN <<"'", "'">> ELSE <<Head(v)>>) \o EscapeQuotes(Tail(v))

\* get_sharepoint_list_item_data, had it escaped the filter value
ItemsUrlEscaped(tenant_name, team_id, list_id, column, val) ==
    UrlSites \o tenant_name \o UrlTeams \o team_id \o UrlLists \o list_id
        \o UrlItems \o UrlFilter \o column \o UrlEq \o EscapeQuotes(val) \o UrlQuote

\* line 179: the f-string of get_sharepoint_list_item_data
ItemsUrl(tenant_name, team_id, list_id, column, val) ==
    UrlSites \o tenant_name \o UrlTeams \o team_id \o UrlLists \o list_id
        \o UrlItems \o UrlFilter \o column \o UrlEq \o val \o UrlQuote

\* line 212: the f-string of get_sharepoint_list
ListUrl(tenant_name, team_id, list_id) ==
    UrlSites \o tenant_name \o UrlTeams \o team_id \o UrlLists \o list_id \o UrlItems

\* line 218: the params of get_sharepoint_list; get_sharepoint_list_item_data passes none
Params(m) ==
    IF m = "list" THEN [expand |-> "False", top |-> "4999"] ELSE None

\* how an f-string formats the return value of _get_token
FormatToken(t) ==
    IF t = "None" THEN NoneStr ELSE AccessToken

\* lines 181-183 / 214-216
AuthHeader(t) ==
    Bearer \o FormatToken(t)

\* `not result`, had the password exchange been done unconditionally
FalsyAlways(r) ==
    TRUE

\* line 144: `not result`
Falsy(r) ==
    r = "None"

\* line 152: 'access_token' in result
HasAccessToken(r) ==
    r = "token"

\* Response.validate, lines 35-36
Valid(status) ==
    status \in valid_response

\* Validator.__get__: the value lives on the descriptor, whatever obj is
ReadResponse(obj) ==
    value

\* the status test, had it accepted every code the validator accepts
IsSuccessAnyValid(r) ==
    r.status \in valid_response

\* lines 187 / 220
IsSuccess(r) ==
    r.status = Ok

\* the handler, had it been `except SharePointError`
CaughtSharePointOnly(e) ==
    e = "InvalidResponseCodeError"

\* `except Exception`, lines 189 / 222
Caught(e) ==
    e \in ExceptionSubclasses

----------------------------------------------------------------------------
\* Arguments

ListArgs(tn, tm, l) ==
    [tenant_name |-> tn, team_id |-> tm, list_id |-> l, column |-> <<>>, value |-> <<>>]

\* Checking_list.py lines 15-17
DriverArgs ==
    ListArgs(Unisyd, AIHub, ListId)

\* the arguments a harness process calls with
HarnessArgs ==
    {[DriverArgs EXCEPT !.column = <<"a">>, !.value = v] : v \in {<<"a">>, <<"'">>}}

\* the arguments URLs are built from in the URL specification
WideArgs ==
    [tenant_name : {Unisyd, <<"'">>}, team_id : {AIHub, <<"a", "'">>},
     list_id : {ListId, <<"'", "a">>},
     column : Strs(MaxLen) \ {<<>>}, value : Strs(MaxLen)]

----------------------------------------------------------------------------
\* State after construction (MicrosoftGraph.__init__, lines 116-130): every
\* client has its own msal application, whose token cache is empty; the
\* descriptor Response() of line 86 has no value yet.

Locals ==
    /\ pc = "idle"
    /\ self = "none"
    /\ method = "none"
    /\ url = <<>>
    /\ result = "unset"
    /\ token = "unset"
    /\ headers = <<>>
    /\ request = None
    /\ resp = None
    /\ raised = "none"
    /\ ret = Pending
    /\ stdout = <<>>
    /\ trace = <<>>

Init ==
    /\ main \in {"Checking_list", "harness"}
    /\ dpc = "call"
    /\ calls = 0
    /\ cache = [c \in Clients |-> FALSE]
    /\ value = Unset
    /\ args = DriverArgs
    /\ Locals

\* entry of a fetch method up to the call of self._get_token():
\* lines 178-179, and 211-213 with its print(url)
Begin(c, m, a) ==
    /\ calls' = calls + 1
    /\ self' = c
    /\ method' = m
    /\ args' = a
    /\ url' = IF m = "items"
              THEN ItemsUrl(a.tenant_name, a.team_id, a.list_id, a.column, a.value)
              ELSE ListUrl(a.tenant_name, a.team_id, a.list_id)
    /\ stdout' = IF m = "list" THEN <<"url">> ELSE <<>>
    /\ trace' = <<>>
    /\ result' = "unset"
    /\ token' = "unset"
    /\ headers' = <<>>
    /\ request' = None
    /\ resp' = None
    /\ raised' = "none"
    /\ ret' = Pending
    /\ pc' = "get_token"
    /\ UNCHANGED <<main, cache, value>>

\* a caller other than the driver script calls either method on either client
HarnessCall ==
    /\ main = "harness"
    /\ pc \in {"idle", "returned"}
    /\ calls < MaxCalls
    /\ \E c \in Clients, a \in HarnessArgs :
          \/ Begin(c, "items", a)
          \/ Begin(c, "list", ListArgs(a.tenant_name, a.team_id, a.list_id))
    /\ UNCHANGED dpc

\* Checking_list.py lines 15-17
DriverCall ==
    /\ main = "Checking_list"
    /\ dpc = "call"
    /\ pc = "idle"
    /\ Begin("c1", "list", DriverArgs)
    /\ dpc' = "print"

Log(op, out) ==
    Append(trace, [op |-> op, out |-> out])

\* _get_token lines 136-139: the account-cache lookup
GetAccounts ==
    /\ pc = "get_token"
    /\ \/ /\ trace' = Log("get_accounts", IF cache[self] THEN "some" ELSE "empty")
          /\ pc' = IF cache[self] THEN "silent" ELSE "password"
          /\ result' = "None"
          /\ UNCHANGED raised
       \/ /\ trace' = Log("get_accounts", "raise")
          /\ raised' = "MsalError"
          /\ pc' = "except"
          /\ UNCHANGED result
    /\ UNCHANGED <<main, dpc, calls, cache, value, self, method, args, url,
                   token, headers, request, resp, ret, stdout>>

\* _get_token lines 141-144: silent renewal and the test `not result`
AcquireSilent ==
    /\ pc = "silent"
    /\ \/ \E r \in {"None", "token", "notoken"} :
             /\ trace' = Log("acquire_token_silent", r)
             /\ result' = r
             /\ pc' = IF Falsy(r) THEN "password" ELSE "token_return"
             /\ UNCHANGED raised
       \/ /\ trace' = Log("acquire_token_silent", "raise")
          /\ raised' = "MsalError"
          /\ pc' = "except"
          /\ UNCHANGED result
    /\ UNCHANGED <<main, dpc, calls, cache, value, self, method, args, url,
                   token, headers, request, resp, ret, stdout>>

\* _get_token lines 147-151: the password exchange; a granted token leaves
\* the account in the token cache of this client's application
AcquirePassword ==
    /\ pc = "password"
    /\ \/ \E r \in {"token", "notoken"} :
             /\ trace' = Log("acquire_token_by_username_password", r)
             /\ result' = r
             /\ cache' = IF r = "token" THEN [cache EXCEPT ![self] = TRUE] ELSE cache
             /\ pc' = "token_return"
             /\ UNCHANGED raised
       \/ /\ trace' = Log("acquire_token_by_username_password", "raise")
          /\ raised' = "MsalError"
          /\ pc' = "except"
          /\ UNCHANGED <<result, cache>>
    /\ UNCHANGED <<main, dpc, calls, value, self, method, args, url,
                   token, headers, request, resp, ret, stdout>>

\* _get_token, had it ended in `return result['access_token']` without the test
TokenReturnStrict ==
    /\ pc = "token_return"
    /\ IF HasAccessToken(result)
       THEN /\ token' = "str"
            /\ headers' = AuthHeader(token')
            /\ pc' = "request"
            /\ UNCHANGED raised
       ELSE /\ raised' = "KeyError"
            /\ pc' = "except"
            /\ UNCHANGED <<token, headers>>
    /\ UNCHANGED <<main, dpc, calls, cache, value, self, method, args, url,
                   result, request, resp, ret, stdout, trace>>

\* _get_token lines 152-153 and the headers of lines 181-183 / 214-216
TokenReturn ==
    /\ pc = "token_return"
    /\ token' = IF HasAccessToken(result) THEN "str" ELSE "None"
    /\ headers' = AuthHeader(token')
    /\ pc' = "request"
    /\ UNCHANGED <<main, dpc, calls, cache, value, self, method, args, url,
                   result, request, resp, raised, ret, stdout, trace>>

\* requests.get of lines 185 / 218
HttpGet ==
    /\ pc = "request"
    /\ request' = [url |-> url, headers |-> headers, params |-> Params(method)]
    /\ \/ \E s \in Statuses :
             /\ resp' = [kind |-> "Response", status |-> s, by |-> self, n |-> calls]
             /\ trace' = Log("GET", "response")
             /\ pc' = "assign"
             /\ UNCHANGED raised
       \/ /\ trace' = Log("GET", "raise")
          /\ raised' = "RequestException"
          /\ pc' = "except"
          /\ UNCHANGED resp
    /\ UNCHANGED <<main, dpc, calls, cache, value, self, method, args, url,
                   result, token, headers, ret, stdout>>

\* Validator.__set__, had it stored the value before validating it
AssignThenValidate ==
    /\ pc = "assign"
    /\ value' = resp
    /\ IF Valid(resp.status)
       THEN /\ pc' = "check"
            /\ UNCHANGED raised
       ELSE /\ raised' = "InvalidResponseCodeError"
            /\ pc' = "except"
    /\ UNCHANGED <<main, dpc, calls, cache, self, method, args, url, result,
                   token, headers, request, resp, ret, stdout, trace>>

\* `self.response = ...` of lines 185 / 218: Validator.__set__ (lines 23-25)
\* runs Response.validate (lines 35-40) and then stores the value
AssignResponse ==
    /\ pc = "assign"
    /\ IF Valid(resp.status)
       THEN /\ value' = resp
            /\ pc' = "check"
            /\ UNCHANGED raised
       ELSE /\ raised' = "InvalidResponseCodeError"
            /\ pc' = "except"
            /\ UNCHANGED value
    /\ UNCHANGED <<main, dpc, calls, cache, self, method, args, url, result,
                   token, headers, request, resp, ret, stdout, trace>>

\* lines 187-188 / 220-221; falling off the end returns None
CheckStatus ==
    /\ pc = "check"
    /\ ret' = IF IsSuccess(ReadResponse(self)) THEN ReadResponse(self) ELSE None
    /\ pc' = "returned"
    /\ UNCHANGED <<main, dpc, calls, cache, value, self, method, args, url,
                   result, token, headers, request, resp, raised, stdout, trace>>

\* the handler, had it started the method over once after a failure
ExceptRetry ==
    /\ pc = "except"
    /\ IF Cardinality({i \in 1..Len(trace) : trace[i].out = "raise"}) + 
          (IF raised = "InvalidResponseCodeError" THEN 1 ELSE 0) < 2
       THEN /\ stdout' = Append(stdout, "error")
            /\ pc' = "get_token"
            /\ raised' = "none"
            /\ UNCHANGED ret
       ELSE /\ stdout' = Append(stdout, "error")
            /\ ret' = None
            /\ pc' = "returned"
            /\ UNCHANGED raised
    /\ UNCHANGED <<main, dpc, calls, cache, value, self, method, args, url,
                   result, token, headers, request, resp, trace>>

\* lines 189-192 / 222-225: the handler prints one line and the method ends
Except ==
    /\ pc = "except"
    /\ IF Caught(raised)
       THEN /\ stdout' = Append(stdout, "error")
            /\ ret' = None
            /\ pc' = "returned"
       ELSE /\ pc' = "propagated"
            /\ UNCHANGED <<stdout, ret>>
    /\ UNCHANGED <<main, dpc, calls, cache, value, self, method, args, url,
                   result, token, headers, request, resp, raised, trace>>

\* Checking_list.py line 19: print(sharepoint_response.json())
DriverPrint ==
    /\ main = "Checking_list"
    /\ dpc = "print"
    /\ pc = "returned"
    /\ IF ret = None
       THEN /\ dpc' = "uncaught"
            /\ UNCHANGED stdout
       ELSE /\ dpc' = "done"
            /\ stdout' = Append(stdout, "json")
    /\ UNCHANGED <<main, calls, cache, value, pc, self, method, args, url,
                   result, token, headers, request, resp, raised, ret, trace>>

Next ==
    \/ HarnessCall
    \/ DriverCall
    \/ GetAccounts
    \/ AcquireSilent
    \/ AcquirePassword
    \/ TokenReturn
    \/ HttpGet
    \/ AssignResponse
    \/ CheckStatus
    \/ Except
    \/ DriverPrint

Spec ==
    Init /\ [][Next]_vars

----------------------------------------------------------------------------
\* URL construction on its own: the inputs are drawn from WideArgs and the
\* two f-strings are applied to them.

InitUrl ==
    /\ main = "urls"
    /\ dpc = "call"
    /\ calls = 0
    /\ cache = [c \in Clients |-> FALSE]
    /\ value = Unset
    /\ args \in WideArgs
    /\ Locals

BuildItemsUrl ==
    /\ main = "urls"
    /\ pc = "idle"
    /\ url' = ItemsUrl(args.tenant_name, args.team_id, args.list_id, args.column, args.value)
    /\ method' = "items"
    /\ pc' = "built"
    /\ UNCHANGED <<main, dpc, calls, cache, value, self, args, result, token,
                   headers, request, resp, raised, ret, stdout, trace>>

BuildListUrl ==
    /\ main = "urls"
    /\ pc = "idle"
    /\ url' = ListUrl(args.tenant_name, args.team_id, args.list_id)
    /\ method' = "list"
    /\ pc' = "built"
    /\ UNCHANGED <<main, dpc, calls, cache, value, self, args, result, token,
                   headers, request, resp, raised, ret, stdout, trace>>

NextUrl ==
    \/ BuildItemsUrl
    \/ BuildListUrl

SpecUrl ==
    InitUrl /\ [][NextUrl]_vars

----------------------------------------------------------------------------
\* Properties

TypeOK ==
    /\ main \in {"Checking_list", "harness"}
    /\ dpc \in {"call", "print", "done", "uncaught"}
    /\ calls \in 0..MaxCalls
    /\ cache \in [Clients -> BOOLEAN]
    /\ pc \in {"idle", "get_token", "silent", "password", "token_return",
               "request", "assign", "check", "except", "returned", "propagated"}
    /\ value.kind \in {"unset", "Response"}
    /\ ret.kind \in {"pending", "None", "Response"}

\* number of calls of op in the trace of the current fetch call
Count(op) ==
    Cardinality({i \in 1..Len(trace) : trace[i].op = op})

\* outcome of the call of op in the trace, "absent" when it was not made
Outcome(op) ==
    IF \E i \in 1..Len(trace) : trace[i].op = op
    THEN trace[CHOOSE i \in 1..Len(trace) : trace[i].op = op].out
    ELSE "absent"

\* position of the first call of op in the trace, 0 when it was not made
Position(op) ==
    IF \E i \in 1..Len(trace) : trace[i].op = op
    THEN CHOOSE i \in 1..Len(trace) : trace[i].op = op /\ \A j \in 1..(i - 1) : trace[j].op # op
    ELSE 0

\* number of error lines printed during the current fetch call
ErrorLines ==
    Cardinality({i \in 1..Len(stdout) : stdout[i] = "error"})

\* the GET of the current fetch call completed with a status code
Answered ==
    resp.kind = "Response"

\* _get_token has ended, by returning or by an exception
TokenEnded ==
    /\ trace # <<>>
    /\ pc \notin {"idle", "get_token", "silent", "password"}

\* s contains sub as a contiguous substring
Contains(s, sub) ==
    \E i \in 1..(Len(s) - Len(sub) + 1) : SubSeq(s, i, i + Len(sub) - 1) = sub

\* number of single quotes in s
Quotes(s) ==
    Cardinality({i \in 1..Len(s) : s[i] = "'"})

\* C1: either fetch method returns a response only when the GET completed
\* with status 200, and then it is the response of that GET; for every other
\* status of {201, 400, 401, 403, 404, 429, 500} it returns None.
TheoremC1 ==
    /\ ret.kind = "Response" => Answered /\ resp.status = 200 /\ ret = resp
    /\ (pc = "returned" /\ Answered /\ resp.status \in Statuses \ {200}) => ret = None

WitnessC1 ==
    /\ pc = "returned"
    /\ method = "list"
    /\ Answered
    /\ resp.status = 201
    /\ ret = None

\* C2: whenever the GET completes with a status other than 200, the method
\* has printed exactly one error line when it returns None.
ClaimC2 ==
    (pc = "returned" /\ Answered /\ resp.status # 200) => (ret = None /\ ErrorLines = 1)

\* C3: an error thrown by the account lookup, the silent renewal, the
\* password exchange, the GET or the validation never leaves the fetch
\* method: the method prints one error line and returns None.
TheoremC3 ==
    /\ pc # "propagated"
    /\ (pc = "returned" /\ raised # "none") => (ret = None /\ ErrorLines = 1)

WitnessC3 ==
    /\ pc = "returned"
    /\ raised = "MsalError"
    /\ Outcome("acquire_token_silent") = "raise"
    /\ ret = None

\* C4: once _get_token has ended: if the lookup found an account, silent
\* renewal was attempted, and before any password exchange; the password
\* exchange was made exactly when the lookup found no account or silent
\* renewal gave no result, and at most once.
TheoremC4 ==
    TokenEnded =>
        /\ Outcome("get_accounts") = "some" =>
              /\ Count("acquire_token_silent") = 1
              /\ Count("acquire_token_by_username_password") > 0 =>
                    Position("acquire_token_silent") < Position("acquire_token_by_username_password")
        /\ Count("acquire_token_by_username_password") <= 1
        /\ Count("acquire_token_by_username_password") = 1 <=>
              \/ Outcome("get_accounts") = "empty"
              \/ Outcome("acquire_token_silent") = "None"

WitnessC4 ==
    /\ pc = "request"
    /\ Outcome("get_accounts") = "some"
    /\ Outcome("acquire_token_silent") = "None"
    /\ Count("acquire_token_by_username_password") = 1

\* C5: when the provider's result has no access token, _get_token returns
\* None without raising, the GET is still sent, with the header
\* 'Bearer None', and a 401 answer makes the fetch method return None.
TheoremC5 ==
    /\ (result = "notoken" /\ pc # "token_return") =>
          /\ token = "None"
          /\ headers = <<"B","e","a","r","e","r"," ","N","o","n","e">>
          /\ pc = "request" \/ Count("GET") = 1
    /\ (result = "notoken" /\ Count("GET") = 1) => request.headers = headers
    /\ (result = "notoken" /\ pc = "returned" /\ Answered /\ resp.status = 401) => ret = None

WitnessC5 ==
    /\ pc = "returned"
    /\ result = "notoken"
    /\ token = "None"
    /\ Count("GET") = 1
    /\ Answered
    /\ resp.status = 401
    /\ ret = None

\* C6: the URL of get_sharepoint_list_item_data is the fixed text with
\* tenant name, team id, list id, column and value inserted unchanged; it
\* contains fields/{column} eq '{value}' and no character is added or
\* escaped, also when the value holds a single quote.
TheoremC6 ==
    (method = "items" /\ url # <<>>) =>
        /\ url = UrlSites \o args.tenant_name \o UrlTeams \o args.team_id \o UrlLists
                   \o args.list_id
                   \o <<"/","i","t","e","m","s","?","$","e","x","p","a","n","d","=","f","i","e","l","d","s",
                        "&","$","f","i","l","t","e","r","=","f","i","e","l","d","s","/">>
                   \o args.column \o <<" ","e","q"," ","'">> \o args.value \o <<"'">>
        /\ Contains(url, <<"f","i","e","l","d","s","/">> \o args.column
                           \o <<" ","e","q"," ","'">> \o args.value \o <<"'">>)
        /\ Quotes(url) = 2 + Quotes(args.tenant_name) + Quotes(args.team_id)
                           + Quotes(args.list_id) + Quotes(args.column) + Quotes(args.value)

WitnessC6 ==
    /\ main = "urls"
    /\ pc = "built"
    /\ method = "items"
    /\ Quotes(args.value) > 0
    /\ Quotes(url) > 2

\* C7: the value held for the response attribute is unassigned or has status
\* 200 or 201; a response with another status raises
\* InvalidResponseCodeError and is not stored.
TheoremC7 ==
    /\ value = Unset \/ value.status \in {200, 201}
    /\ raised = "InvalidResponseCodeError" =>
          /\ Answered
          /\ resp.status \notin {200, 201}
          /\ value # resp

WitnessC7 ==
    /\ pc = "returned"
    /\ raised = "InvalidResponseCodeError"
    /\ value # Unset
    /\ value.n < resp.n

\* C8: a fetch call on one client never changes the value read through the
\* response attribute of another client.
ClaimC8 ==
    [][\A c \in Clients : c # self' => ReadResponse(c)' = ReadResponse(c)]_vars

\* C9: a fetch call makes each provider request and the GET at most once,
\* and after the first failure (an exception, a rejected status or a status
\* other than 200) it makes no further request.
TheoremC9 ==
    /\ Count("get_accounts") <= 1
    /\ Count("acquire_token_silent") <= 1
    /\ Count("acquire_token_by_username_password") <= 1
    /\ Count("GET") <= 1
    /\ \A i \in 1..Len(trace) :
          (trace[i].out = "raise" \/ trace[i].op = "GET") => i = Len(trace)

WitnessC9 ==
    /\ pc = "returned"
    /\ raised = "RequestException"
    /\ ret = None
    /\ Count("get_accounts") = 1
    /\ Count("GET") = 1

\* C10: a run of the driver script never ends in an uncaught error.
ClaimC10 ==
    dpc # "uncaught"

====
